---- MODULE Spec2Model ----
(***************************************************************************)
(* Model of src/main.py: a script that turns a list of MP3 file names into *)
(* a Spotify playlist.  Strings that the program inspects character by     *)
(* character (file names, operator input, queries) are sequences of        *)
(* one-character strings; catalog URIs and playlist names, which the       *)
(* program only compares and copies, are TLA+ strings.                     *)
(***************************************************************************)
EXTENDS Integers, Sequences, FiniteSets, TLC

(***************************************************************************)
(* Bounds of the model.                                                    *)
(***************************************************************************)
MaxFiles == 3
MaxRounds == 2
MaxTok == 5
MaxPubLen == 120
MaxOwned == 51
MaxRuns == 2

(***************************************************************************)
(* Program and library constants.                                          *)
(***************************************************************************)
BATCH_SIZE == 50
\* sp.current_user_playlists() is called without arguments: the client
\* library then asks for one page of at most 50 playlists.
PageLimit == 50

(***************************************************************************)
(* Python values.                                                          *)
(***************************************************************************)
\* None where a URI is expected (track_uris slots, search_track's result).
None == "<None>"
\* None where a str is expected (parse_filename's "None, None").
NoneStr == <<"<None>">>
\* Python truthiness of an optional URI and of an optional str.
Truthy(u) == u # None /\ u # ""
TruthyStr(s) == s # NoneStr /\ s # <<>>

Min(a, b) == IF a < b THEN a ELSE b

(***************************************************************************)
(* str methods used by the program.                                        *)
(***************************************************************************)
Whitespace == {" "}
\* Characters c with c.isdigit(): the decimal digits and, e.g., the
\* superscript two (written "sup2" here), which int() does not accept.
DecimalChars == {"0", "1", "2", "3"}
DigitChars == DecimalChars \cup {"sup2"}

RECURSIVE lstrip(_)
lstrip(s) ==
    IF s # <<>> /\ Head(s) \in Whitespace THEN lstrip(Tail(s)) ELSE s

RECURSIVE rstrip(_)
rstrip(s) ==
    IF s # <<>> /\ s[Len(s)] \in Whitespace
    THEN rstrip(SubSeq(s, 1, Len(s) - 1))
    ELSE s

\* str.strip()
strip(s) == rstrip(lstrip(s))

\* str.endswith(suffix) and str.startswith(prefix)
endswith(s, suffix) ==
    Len(s) >= Len(suffix) /\ SubSeq(s, Len(s) - Len(suffix) + 1, Len(s)) = suffix

startswith(s, prefix) == Len(s) >= Len(prefix) /\ SubSeq(s, 1, Len(prefix)) = prefix

\* str.lower(), on the letters of the model's alphabet.
lower(s) ==
    [k \in 1..Len(s) |->
        CASE s[k] = "M" -> "m" [] s[k] = "P" -> "p" [] s[k] = "A" -> "a" [] OTHER -> s[k]]

\* str.replace("\\", os.sep), os.sep being "/".
replace_backslashes(s) == [k \in 1..Len(s) |-> IF s[k] = "\\" THEN "/" ELSE s[k]]

\* os.path.basename(p): the text after the last "/".
basename(p) ==
    LET seps == {k \in 1..Len(p) : p[k] = "/"}
    IN  IF seps = {} THEN p
        ELSE SubSeq(p, (CHOOSE k \in seps : \A j \in seps : j <= k) + 1, Len(p))

\* os.path.splitext(p)[0] for a name without a directory separator: the
\* text before the last dot, unless only dots precede that dot.
splitext_root(p) ==
    LET dots == {k \in 1..Len(p) : p[k] = "."}
    IN  IF dots = {} THEN p
        ELSE LET dotIndex == CHOOSE k \in dots : \A j \in dots : j <= k
             IN  IF \E j \in 1..(dotIndex - 1) : p[j] # "."
                 THEN SubSeq(p, 1, dotIndex - 1)
                 ELSE p

\* str.replace("_", " ")
replace_underscores(s) == [k \in 1..Len(s) |-> IF s[k] = "_" THEN " " ELSE s[k]]

\* The separator of str.split(" - ").
Sep == <<" ", "-", " ">>

\* Whether Sep occurs in s at index k (1-based).
SepAt(s, k) == k + 2 <= Len(s) /\ SubSeq(s, k, k + 2) = Sep

\* str.find: the first index at which Sep occurs, 0 when it does not.
find_sep(s) ==
    LET occ == {k \in 1..Len(s) : SepAt(s, k)}
    IN  IF occ = {} THEN 0 ELSE CHOOSE k \in occ : \A j \in occ : k <= j

\* str.split(" - "): cut at each occurrence found scanning left to right.
RECURSIVE split(_)
split(s) ==
    LET k == find_sep(s)
    IN  IF k = 0 THEN <<s>>
        ELSE <<SubSeq(s, 1, k - 1)>> \o split(SubSeq(s, k + 3, Len(s)))

\* str.isdigit(): non-empty and every character a digit character.
isdigit(s) == s # <<>> /\ \A k \in 1..Len(s) : s[k] \in DigitChars

\* Whether int(s) returns for a string with s.isdigit(): it raises
\* ValueError on digit characters that are not decimal digits.
int_accepts(s) == \A k \in 1..Len(s) : s[k] \in DecimalChars

DigitValue(c) == CASE c = "0" -> 0 [] c = "1" -> 1 [] c = "2" -> 2 [] c = "3" -> 3

\* int(s) for a string of decimal digits.
RECURSIVE int(_)
int(s) ==
    IF s = <<>> THEN 0
    ELSE 10 * int(SubSeq(s, 1, Len(s) - 1)) + DigitValue(s[Len(s)])

(***************************************************************************)
(* parse_filename                                                          *)
(***************************************************************************)
\* A plausible slip: the track-number test of the three-field form left out.
parse_filename_no_digit_test(filename) ==
    LET base_name == splitext_root(strip(filename))
        parts == split(replace_underscores(base_name))
    IN  IF Len(parts) = 2 THEN <<parts[1], parts[2]>>
        ELSE IF Len(parts) = 3 THEN <<parts[2], parts[3]>>
        ELSE <<NoneStr, NoneStr>>

\* parse_filename(filename): the pair (artist, title), or (None, None).
parse_filename(filename) ==
    LET base_name == splitext_root(strip(filename))
        parts == split(replace_underscores(base_name))
    IN  IF Len(parts) = 2 THEN <<parts[1], parts[2]>>
        ELSE IF Len(parts) = 3 /\ isdigit(parts[1]) THEN <<parts[2], parts[3]>>
        ELSE <<NoneStr, NoneStr>>

(***************************************************************************)
(* search_track, find_fuzzy_matches, get_or_create_playlist                *)
(***************************************************************************)
\* The query string of search_track: f"artist:{artist} track:{title}".
exact_query(artist, title) == <<"artist:">> \o artist \o <<" ", "track:">> \o title

\* search_track, given the "items" of the catalog's answer (their URIs).
search_track(tracks) == IF tracks # <<>> THEN tracks[1] ELSE None

\* The initial query of the fuzzy loop: f"{artist} {title}".
fuzzy_query(artist, title) == artist \o <<" ">> \o title

\* sp.current_user_playlists()["items"]: the first page of the playlists
\* the user owns.
current_user_playlists(all) == SubSeq(all, 1, Min(Len(all), PageLimit))

\* A plausible slip: the loop keeps going and the last match wins.
RECURSIVE find_playlist_last(_, _)
find_playlist_last(playlists, playlist_name) ==
    IF playlists = <<>> THEN [found |-> FALSE]
    ELSE LET last == playlists[Len(playlists)]
         IN  IF last.name = playlist_name
             THEN [found |-> TRUE, id |-> last.id]
             ELSE find_playlist_last(SubSeq(playlists, 1, Len(playlists) - 1),
                                     playlist_name)

\* The search loop of get_or_create_playlist: the id of the first playlist
\* of the page whose name equals playlist_name.
RECURSIVE find_playlist(_, _)
find_playlist(playlists, playlist_name) ==
    IF playlists = <<>> THEN [found |-> FALSE]
    ELSE IF Head(playlists).name = playlist_name
         THEN [found |-> TRUE, id |-> Head(playlists).id]
         ELSE find_playlist(Tail(playlists), playlist_name)

(***************************************************************************)
(* The operator's answer at the prompt.                                    *)
(***************************************************************************)
\* A plausible slip: the empty answer is not told apart from a new query.
classify_empty_requeries(choice, n) ==
    IF isdigit(choice)
    THEN IF ~int_accepts(choice) THEN "ValueError"
         ELSE IF 1 <= int(choice) /\ int(choice) <= n THEN "select"
         ELSE "requery"
    ELSE "requery"

\* The branch main takes on the answer `choice` with n matches on display;
\* "ValueError" when int(choice) raises.
classify(choice, n) ==
    IF isdigit(choice)
    THEN IF ~int_accepts(choice) THEN "ValueError"
         ELSE IF 1 <= int(choice) /\ int(choice) <= n THEN "select"
         ELSE "requery"
    ELSE IF choice # <<>> THEN "requery"
    ELSE "skip"

\* A plausible slip: the top match is taken whatever number was entered.
selected_uri_top(fuzzy_matches, choice) == fuzzy_matches[1]

\* fuzzy_matches[int(choice) - 1][0]
selected_uri(fuzzy_matches, choice) == fuzzy_matches[int(choice)]

\* A plausible slip: the next query is rebuilt instead of taken from the
\* operator.
next_query_stale(query, choice) == query

\* query = choice
next_query(query, choice) == choice

(***************************************************************************)
(* The position-indexed URI list.                                          *)
(***************************************************************************)
\* A plausible slip: results are collected in the order they are found
\* (the first free slot) instead of at the item's position.
store_uri_first_free(uris, i, uri) ==
    LET free == {k \in 1..Len(uris) : uris[k] = None}
        k == CHOOSE k \in free : \A j \in free : k <= j
    IN  [uris EXCEPT ![k] = uri]

\* A plausible slip: the slot after the item's own is written.
store_uri_off_by_one(uris, i, uri) ==
    IF i < Len(uris) THEN [uris EXCEPT ![i + 1] = uri] ELSE uris

\* track_uris[i] = uri
store_uri(uris, i, uri) == [uris EXCEPT ![i] = uri]

\* A plausible slip: a URI that an earlier item already has is dropped.
RECURSIVE compact_distinct(_)
compact_distinct(uris) ==
    IF uris = <<>> THEN <<>>
    ELSE LET front == compact_distinct(SubSeq(uris, 1, Len(uris) - 1))
             uri == uris[Len(uris)]
         IN  IF Truthy(uri) /\ \A k \in 1..Len(front) : front[k] # uri
             THEN Append(front, uri)
             ELSE front

\* A plausible slip: only None is filtered out.
compact_keep_empty(uris) == SelectSeq(uris, LAMBDA u : u # None)

\* [uri for uri in track_uris if uri]
compact(uris) == SelectSeq(uris, Truthy)

\* The positions the comprehension keeps, in the order it visits them.
RECURSIVE kept_positions(_, _)
kept_positions(uris, k) ==
    IF k > Len(uris) THEN <<>>
    ELSE (IF Truthy(uris[k]) THEN <<k>> ELSE <<>>) \o kept_positions(uris, k + 1)

\* A plausible slip: a slice one short of the batch size.
batch_of_short(uris, i) == SubSeq(uris, i + 1, Min(i + BATCH_SIZE - 1, Len(uris)))

\* track_uris[i : i + BATCH_SIZE], i counted from 0.
batch_of(uris, i) == SubSeq(uris, i + 1, Min(i + BATCH_SIZE, Len(uris)))

(***************************************************************************)
(* State of one run of main, of the catalog, and the record of the calls   *)
(* made to the catalog and of the prompts answered.                        *)
(***************************************************************************)
VARIABLES
    files,                  \* the input list (main, line 196-200)
    pc,                     \* where main is
    idx,                    \* i of the first loop (line 208), from 1
    track_uris,             \* line 206: one slot per input position
    unparsed_files,         \* line 193
    unmatched_songs,        \* line 194: records [i, filename, artist, title]
    um,                     \* position of the second loop in unmatched_songs
    query,                  \* line 224 / 237
    fuzzy_matches,          \* line 226: the URIs of the matches on display
    last_answer,            \* catalog: the items of its latest fuzzy answer
    still_unmatched_songs,  \* line 220: the file names
    playlist_name,          \* args.playlist
    playlist_id,            \* line 243
    publish_uris,           \* track_uris as rebound on line 247
    batch_i,                \* i of the loop of add_tracks_to_playlist, from 0
    printed,                \* the two trailing reports (lines 251-259)
    owned,                  \* catalog: the user's playlists, in listing order
    parsed,                 \* per position: what parse_filename returned
    outcome,                \* per position: how the item ended, and its URI
    exact_calls,            \* the sp.search calls of search_track
    exact_answer,           \* catalog: the items it returned to the latest of them
    raised,                 \* the call to the catalog that raised, if one did
    fuzzy_log,              \* the queries of this item's fuzzy searches: the
                            \* first and the latest, MaxRounds at most
    input_log,              \* the operator's answers to the searches of
                            \* fuzzy_log but the first
    listed,                 \* the page get_or_create_playlist last read
    create_calls,           \* the user_playlist_create calls of this run
    append_calls,           \* the batches given to playlist_add_items
    publish_pos,            \* the input position of each URI of publish_uris
    runs,                   \* number of runs of main so far
    prev_id                 \* playlist_id of the run before

vars ==
    <<files, pc, idx, track_uris, unparsed_files, unmatched_songs, um, query,
      fuzzy_matches, last_answer, still_unmatched_songs, playlist_name, playlist_id,
      publish_uris, batch_i, printed, owned, parsed, outcome, exact_calls,
      fuzzy_log, input_log, listed, create_calls, append_calls, publish_pos,
      runs, prev_id, exact_answer, raised>>

(***************************************************************************)
(* Inputs.                                                                 *)
(***************************************************************************)
\* The extension the two scanners look for.
Mp3Ext == <<".", "m", "p", "3">>

\* The file names of a run are what a scanner returned: names that end in
\* ".mp3".  "a - 1.mp3" parses to ("a", "1"); "a.mp3" does not parse.
GoodName == <<"a", " ", "-", " ", "1">> \o Mp3Ext
BadName == <<"a">> \o Mp3Ext
FileNames == {GoodName, BadName}

\* Answers of the catalog to the limit-1 search: the URIs of "items".
ExactAnswers == {<<>>, <<"u1">>, <<"u2">>, <<"">>}
\* Answers of the catalog to the fuzzy search (at most 5 items).
FuzzyAnswers == {<<>>, <<"u1">>, <<"u1", "u2">>, <<"u2", "">>}
\* What the operator may type at the prompt.
Choices == {<<>>, <<"1">>, <<"2">>, <<"0">>, <<"x">>, <<"sup2">>}

\* Fragments of which the file names of the parser's specification are made.
Fragments == {<<"a">>, <<"1">>, <<".">>, <<"_">>, <<" ">>, <<"-">>,
              <<" ", "-", " ">>, <<"_", "-", "_">>}

RECURSIVE Concat(_)
Concat(ss) == IF ss = <<>> THEN <<>> ELSE Head(ss) \o Concat(Tail(ss))

RawNames == {Concat(t) : t \in UNION {[1..n -> Fragments] : n \in 0..MaxTok}}

(***************************************************************************)
(* mp3_files_from_directory, mp3_files_from_m3u                            *)
(***************************************************************************)
IsMp3Entry(f) == endswith(lower(f), Mp3Ext)

\* mp3_files_from_directory, given os.listdir's answer.
mp3_files_from_directory(listing) == SelectSeq(listing, IsMp3Entry)

IsMp3Line(line) == ~startswith(line, <<"#">>) /\ endswith(line, Mp3Ext)

\* mp3_files_from_m3u, given the lines of the file.
mp3_files_from_m3u(lines) ==
    LET stripped == [k \in 1..Len(lines) |-> strip(lines[k])]
        kept == SelectSeq(stripped, IsMp3Line)
    IN  [k \in 1..Len(kept) |-> basename(replace_backslashes(kept[k]))]

\* What a directory may hold: every raw name with and without the
\* extension, and names with the extension in capitals or cut short.
DirEntries ==
    RawNames
    \cup {raw \o Mp3Ext : raw \in RawNames}
    \cup {<<"a", " ", "-", " ", "1", ".", "M", "P", "3">>,
          <<"a", " ", "-", " ", "1", ".", "m", "p">>,
          <<"a", " ", "-", " ", "1", ".", "m", "p", "3", " ">>}

\* Lines of an M3U playlist: names, padded names, comments, paths.
M3uLines ==
    {<<>>, GoodName, BadName,
     <<" ">> \o GoodName \o <<" ">>,
     <<"#">> \o GoodName,
     <<"d", "/">> \o GoodName,
     <<"d", "\\", "1", " ", "-", " ">> \o GoodName,
     <<"a", " ", "-", " ", "1">>,
     <<"a", " ", "-", " ", "1", ".", "M", "P", "3">>,
     <<"a", "_", "-", " ", "1", ".", "a">> \o Mp3Ext}

(***************************************************************************)
(* The state after line 206, for a given input and catalog.                *)
(***************************************************************************)
\* A plausible slip: the report goes over every exact miss.
unresolved_report_all_misses(unmatched, still_unmatched) ==
    [k \in 1..Len(unmatched) |-> unmatched[k].filename]

\* Lines 256-259: the file names printed under "Songs not processed after
\* fuzzy search:".
unresolved_report(unmatched, still_unmatched) == still_unmatched

\* A plausible slip: the exception is caught and the call made again.
propagate_retry(at) == at

\* Where main goes when a call to the catalog made at `at` raises: no try
\* statement encloses the call, the exception ends main.
propagate(at) == "catalog_error"

\* A plausible slip: one pass, each miss taken to the fuzzy loop at once.
after_exact_one_pass(fs, i, unmatched) ==
    IF unmatched # <<>> THEN "session"
    ELSE IF i <= Len(fs) THEN "exact"
    ELSE "playlist"

\* Where main goes after the first loop has handled positions below i.
after_exact(fs, i, unmatched) ==
    IF i <= Len(fs) THEN "exact"
    ELSE IF unmatched # <<>> THEN "session"
    ELSE "playlist"

\* Where main goes after the fuzzy loop of item k of unmatched_songs.
after_session(k, unmatched) ==
    IF k < Len(unmatched) THEN "session" ELSE "playlist"

Start(fs, name) ==
    /\ files = fs
    /\ pc = after_exact(fs, 1, <<>>)
    /\ idx = 1
    /\ track_uris = [k \in 1..Len(fs) |-> None]
    /\ unparsed_files = <<>>
    /\ unmatched_songs = <<>>
    /\ um = 0
    /\ query = <<>>
    /\ fuzzy_matches = <<>>
    /\ last_answer = <<>>
    /\ still_unmatched_songs = <<>>
    /\ playlist_name = name
    /\ playlist_id = [found |-> FALSE]
    /\ publish_uris = <<>>
    /\ batch_i = 0
    /\ printed = [unparsed |-> <<>>, unresolved |-> <<>>]
    /\ parsed = [k \in 1..Len(fs) |-> <<>>]
    /\ outcome = [k \in 1..Len(fs) |-> [kind |-> "pending", uri |-> None]]
    /\ exact_calls = <<>>
    /\ exact_answer = [i |-> 0, tracks |-> <<>>]
    /\ raised = ""
    /\ fuzzy_log = <<>>
    /\ input_log = <<>>
    /\ listed = <<>>
    /\ create_calls = <<>>
    /\ append_calls = <<>>
    /\ publish_pos = <<>>

Init ==
    /\ \E fs \in UNION {[1..n -> FileNames] : n \in 0..MaxFiles} : Start(fs, "Mix")
    /\ owned \in {<<>>, <<[name |-> "Mix", id |-> 1]>>}
    /\ runs = 1
    /\ prev_id = [found |-> FALSE]

(***************************************************************************)
(* Lines 208-218: one iteration of the first loop.                         *)
(***************************************************************************)
ExactStep ==
    /\ pc = "exact"
    /\ idx <= Len(files)
    /\ \E filename \in {strip(files[idx])} : \E p \in {parse_filename(filename)} :
       LET artist == p[1]
           title == p[2]
       IN  /\ parsed' = [parsed EXCEPT ![idx] = p]
           /\ IF TruthyStr(artist) /\ TruthyStr(title)
              THEN /\ exact_calls' = Append(exact_calls,
                          [i |-> idx, q |-> exact_query(artist, title), limit |-> 1])
                   /\ \/ \E tracks \in ExactAnswers :
                           LET track_uri == search_track(tracks)
                               unmatched == IF Truthy(track_uri) THEN unmatched_songs
                                            ELSE Append(unmatched_songs,
                                                   [i |-> idx, filename |-> filename,
                                                    artist |-> artist, title |-> title])
                           IN  /\ track_uris' = IF Truthy(track_uri)
                                                THEN store_uri(track_uris, idx, track_uri)
                                                ELSE track_uris
                               /\ unmatched_songs' = unmatched
                               /\ outcome' = [outcome EXCEPT ![idx] =
                                     IF Truthy(track_uri)
                                     THEN [kind |-> "exact", uri |-> track_uri]
                                     ELSE [kind |-> "miss", uri |-> None]]
                               /\ exact_answer' = [i |-> idx, tracks |-> tracks]
                               /\ UNCHANGED raised
                               /\ pc' = after_exact(files, idx + 1, unmatched)
                               /\ idx' = idx + 1
                      \/ \* sp.search raises
                         /\ pc' = propagate(pc)
                         /\ raised' = "search"
                         /\ UNCHANGED <<track_uris, unmatched_songs, outcome, idx,
                                        exact_answer>>
                   /\ UNCHANGED unparsed_files
              ELSE /\ unparsed_files' = Append(unparsed_files, filename)
                   /\ outcome' = [outcome EXCEPT ![idx] = [kind |-> "unparsed", uri |-> None]]
                   /\ pc' = after_exact(files, idx + 1, unmatched_songs)
                   /\ idx' = idx + 1
                   /\ UNCHANGED <<track_uris, unmatched_songs, exact_calls,
                                  exact_answer, raised>>
    /\ UNCHANGED <<files, um, query, fuzzy_matches, last_answer, still_unmatched_songs,
                   playlist_name, playlist_id, publish_uris, batch_i, printed, owned,
                   fuzzy_log, input_log, listed, create_calls, append_calls,
                   publish_pos, runs, prev_id>>

(***************************************************************************)
(* Lines 222-224: the second loop takes the next exact miss.               *)
(***************************************************************************)
BeginSession ==
    /\ pc = "session"
    /\ um < Len(unmatched_songs)
    /\ um' = um + 1
    /\ query' = fuzzy_query(unmatched_songs[um + 1].artist, unmatched_songs[um + 1].title)
    /\ fuzzy_log' = <<>>
    /\ input_log' = <<>>
    /\ pc' = "search"
    /\ UNCHANGED <<files, idx, track_uris, unparsed_files, unmatched_songs,
                   fuzzy_matches, last_answer, still_unmatched_songs, playlist_name, playlist_id,
                   publish_uris, batch_i, printed, owned, parsed, outcome,
                   exact_calls, listed, create_calls, append_calls, publish_pos,
                   runs, prev_id, exact_answer, raised>>

(***************************************************************************)
(* Line 226: find_fuzzy_matches(sp, query).                                *)
(***************************************************************************)
FuzzySearch ==
    /\ pc = "search"
    /\ fuzzy_log' = Append(fuzzy_log, query)
    /\ \/ \E answer \in FuzzyAnswers :
            /\ fuzzy_matches' = answer
            /\ last_answer' = answer
            /\ pc' = "prompt"
            /\ UNCHANGED raised
       \/ \* sp.search raises
          /\ pc' = propagate(pc)
          /\ raised' = "search"
          /\ UNCHANGED <<fuzzy_matches, last_answer>>
    /\ UNCHANGED <<files, idx, track_uris, unparsed_files, unmatched_songs, um,
                   query, still_unmatched_songs, playlist_name, playlist_id,
                   publish_uris, batch_i, printed, owned, parsed, outcome,
                   exact_calls, input_log, listed, create_calls, append_calls,
                   publish_pos, runs, prev_id, exact_answer>>

(***************************************************************************)
(* Lines 227-240: the matches are shown, the operator answers.             *)
(***************************************************************************)
Prompt ==
    /\ pc = "prompt"
    /\ \E choice \in Choices :
         LET i == unmatched_songs[um].i
             branch == classify(choice, Len(fuzzy_matches))
             \* the logs are full: the second search and its answer leave them
             full == branch = "requery" /\ Len(fuzzy_log) >= MaxRounds
         IN  /\ input_log' = Append(IF full THEN Tail(input_log) ELSE input_log, choice)
             /\ fuzzy_log' = IF full
                             THEN <<Head(fuzzy_log)>> \o SubSeq(fuzzy_log, 3, Len(fuzzy_log))
                             ELSE fuzzy_log
             /\ CASE branch = "select" ->
                       /\ track_uris' = store_uri(track_uris, i,
                                                  selected_uri(fuzzy_matches, choice))
                       /\ outcome' = [outcome EXCEPT ![i] =
                             [kind |-> "selected",
                              uri |-> fuzzy_matches[int(choice)]]]
                       /\ pc' = after_session(um, unmatched_songs)
                       /\ UNCHANGED <<query, still_unmatched_songs>>
                  [] branch = "requery" ->
                       /\ query' = next_query(query, choice)
                       /\ pc' = "search"
                       /\ UNCHANGED <<track_uris, outcome, still_unmatched_songs>>
                  [] branch = "skip" ->
                       /\ still_unmatched_songs' =
                             Append(still_unmatched_songs, unmatched_songs[um].filename)
                       /\ outcome' = [outcome EXCEPT ![i] =
                             [kind |-> "skipped", uri |-> None]]
                       /\ pc' = after_session(um, unmatched_songs)
                       /\ UNCHANGED <<track_uris, query>>
                  [] branch = "ValueError" ->
                       /\ pc' = "value_error"
                       /\ UNCHANGED <<track_uris, outcome, query, still_unmatched_songs>>
    /\ UNCHANGED <<files, idx, unparsed_files, unmatched_songs, um, fuzzy_matches, last_answer,
                   playlist_name, playlist_id, publish_uris, batch_i, printed, owned,
                   parsed, exact_calls, listed, create_calls, append_calls,
                   publish_pos, runs, prev_id, exact_answer, raised>>

(***************************************************************************)
(* Lines 242-247: get_or_create_playlist, then the empty slots are         *)
(* dropped from track_uris.                                                *)
(***************************************************************************)
ResolvePlaylist ==
    /\ pc = "playlist"
    /\ \/ \* sp.current_user_playlists raises
          /\ pc' = propagate(pc)
          /\ raised' = "list"
          /\ UNCHANGED <<listed, playlist_id, owned, create_calls, publish_uris,
                         publish_pos>>
       \/ LET playlists == current_user_playlists(owned)
              hit == find_playlist(playlists, playlist_name)
          IN  /\ listed' = playlists
              /\ IF hit.found
                 THEN /\ playlist_id' = hit
                      /\ pc' = "publish"
                      /\ publish_uris' = compact(track_uris)
                      /\ publish_pos' = kept_positions(track_uris, 1)
                      /\ UNCHANGED <<owned, create_calls, raised>>
                 ELSE /\ create_calls' = Append(create_calls,
                             [name |-> playlist_name, public |-> FALSE])
                      /\ \/ \* the catalog creates the playlist and lists it
                            \* first or last among the user's playlists
                            LET new == [name |-> playlist_name, id |-> Len(owned) + 1]
                            IN  /\ owned' \in {<<new>> \o owned, owned \o <<new>>}
                                /\ playlist_id' = [found |-> TRUE, id |-> new.id]
                                /\ pc' = "publish"
                                /\ publish_uris' = compact(track_uris)
                                /\ publish_pos' = kept_positions(track_uris, 1)
                                /\ UNCHANGED raised
                         \/ \* sp.user_playlist_create raises
                            /\ pc' = propagate(pc)
                            /\ raised' = "create"
                            /\ UNCHANGED <<playlist_id, owned, publish_uris, publish_pos>>
    /\ batch_i' = 0
    /\ UNCHANGED <<files, idx, track_uris, unparsed_files, unmatched_songs, um, query,
                   fuzzy_matches, last_answer, still_unmatched_songs, playlist_name, printed,
                   parsed, outcome, exact_calls, fuzzy_log, input_log, append_calls,
                   runs, prev_id, exact_answer>>

(***************************************************************************)
(* Lines 104-108: one iteration of the loop of add_tracks_to_playlist.     *)
(***************************************************************************)
AppendBatch ==
    /\ pc = "publish"
    /\ batch_i < Len(publish_uris)
    /\ LET batch == batch_of(publish_uris, batch_i)
       IN  IF batch # <<>>
           THEN \/ /\ append_calls' = Append(append_calls, batch)
                   /\ batch_i' = batch_i + BATCH_SIZE
                   /\ pc' = "publish"
                   /\ UNCHANGED raised
                \/ \* sp.playlist_add_items raises
                   /\ pc' = propagate(pc)
                   /\ raised' = "append"
                   /\ UNCHANGED <<append_calls, batch_i>>
           ELSE /\ batch_i' = batch_i + BATCH_SIZE
                /\ UNCHANGED <<append_calls, pc, raised>>
    /\ UNCHANGED <<files, idx, track_uris, unparsed_files, unmatched_songs, um, query,
                   fuzzy_matches, last_answer, still_unmatched_songs, playlist_name, playlist_id,
                   publish_uris, printed, owned, parsed, outcome, exact_calls,
                   fuzzy_log, input_log, listed, create_calls, publish_pos, runs,
                   prev_id, exact_answer>>

(***************************************************************************)
(* Lines 251-259: the loop of add_tracks_to_playlist is over (or was never *)
(* entered); the two reports are printed and main returns.                 *)
(***************************************************************************)
Report ==
    /\ pc = "publish"
    /\ batch_i >= Len(publish_uris)
    /\ printed' = [unparsed |-> unparsed_files,
                   unresolved |-> unresolved_report(unmatched_songs, still_unmatched_songs)]
    /\ pc' = "done"
    /\ UNCHANGED <<files, idx, track_uris, unparsed_files, unmatched_songs, um, query,
                   fuzzy_matches, last_answer, still_unmatched_songs, playlist_name, playlist_id,
                   publish_uris, batch_i, owned, parsed, outcome, exact_calls,
                   fuzzy_log, input_log, listed, create_calls, append_calls,
                   publish_pos, runs, prev_id, exact_answer, raised>>

(***************************************************************************)
(* The program is run again, with the same arguments, on the catalog as    *)
(* the run before left it.                                                 *)
(***************************************************************************)
Rerun ==
    /\ pc = "done"
    /\ runs < MaxRuns
    /\ runs' = runs + 1
    /\ prev_id' = playlist_id
    /\ pc' = after_exact(files, 1, <<>>)
    /\ idx' = 1
    /\ track_uris' = [k \in 1..Len(files) |-> None]
    /\ unparsed_files' = <<>>
    /\ unmatched_songs' = <<>>
    /\ um' = 0
    /\ query' = <<>>
    /\ fuzzy_matches' = <<>>
    /\ last_answer' = <<>>
    /\ still_unmatched_songs' = <<>>
    /\ playlist_id' = [found |-> FALSE]
    /\ publish_uris' = <<>>
    /\ batch_i' = 0
    /\ printed' = [unparsed |-> <<>>, unresolved |-> <<>>]
    /\ parsed' = [k \in 1..Len(files) |-> <<>>]
    /\ outcome' = [k \in 1..Len(files) |-> [kind |-> "pending", uri |-> None]]
    /\ exact_calls' = <<>>
    /\ exact_answer' = [i |-> 0, tracks |-> <<>>]
    /\ raised' = ""
    /\ fuzzy_log' = <<>>
    /\ input_log' = <<>>
    /\ listed' = <<>>
    /\ create_calls' = <<>>
    /\ append_calls' = <<>>
    /\ publish_pos' = <<>>
    /\ UNCHANGED <<files, playlist_name, owned>>

(***************************************************************************)
(* One run of main.                                                        *)
(***************************************************************************)
Next ==
    \/ ExactStep
    \/ BeginSession
    \/ FuzzySearch
    \/ Prompt
    \/ ResolvePlaylist
    \/ AppendBatch
    \/ Report

Spec == Init /\ [][Next]_vars

(***************************************************************************)
(* parse_filename and the routing of its result, on what the scanners       *)
(* return for a directory or a playlist of one entry: every name of up to  *)
(* MaxTok fragments followed by ".mp3".                                    *)
(***************************************************************************)
InitParse ==
    /\ \/ \E entry \in DirEntries : Start(mp3_files_from_directory(<<entry>>), "Mix")
       \/ \E line \in M3uLines : Start(mp3_files_from_m3u(<<line>>), "Mix")
    /\ owned = <<>>
    /\ runs = 1
    /\ prev_id = [found |-> FALSE]

NextParse == ExactStep

SpecParse == InitParse /\ [][NextParse]_vars

(***************************************************************************)
(* add_tracks_to_playlist on lists of up to MaxPubLen URIs: main after     *)
(* that many files have all been matched exactly.                          *)
(***************************************************************************)
PatternUris(n, p) == [k \in 1..n |-> IF k % 7 = p THEN "u2" ELSE "u1"]

InitPublish ==
    \E n \in 0..MaxPubLen, p \in 0..6 :
        LET uris == PatternUris(n, p)
            pr == parse_filename(GoodName)
        IN  /\ files = [k \in 1..n |-> GoodName]
            /\ pc = "publish"
            /\ idx = n + 1
            /\ track_uris = uris
            /\ unparsed_files = <<>>
            /\ unmatched_songs = <<>>
            /\ um = 0
            /\ query = <<>>
            /\ fuzzy_matches = <<>>
            /\ last_answer = <<>>
            /\ still_unmatched_songs = <<>>
            /\ playlist_name = "Mix"
            /\ playlist_id = [found |-> TRUE, id |-> 1]
            /\ publish_uris = uris
            /\ batch_i = 0
            /\ printed = [unparsed |-> <<>>, unresolved |-> <<>>]
            /\ owned = <<[name |-> "Mix", id |-> 1]>>
            /\ parsed = [k \in 1..n |-> pr]
            /\ outcome = [k \in 1..n |-> [kind |-> "exact", uri |-> uris[k]]]
            /\ exact_calls = [k \in 1..n |->
                  [i |-> k, q |-> exact_query(pr[1], pr[2]), limit |-> 1]]
            /\ exact_answer = IF n = 0 THEN [i |-> 0, tracks |-> <<>>]
                              ELSE [i |-> n, tracks |-> <<uris[n]>>]
            /\ raised = ""
            /\ fuzzy_log = <<>>
            /\ input_log = <<>>
            /\ listed = owned
            /\ create_calls = <<>>
            /\ append_calls = <<>>
            /\ publish_pos = [k \in 1..n |-> k]
            /\ runs = 1
            /\ prev_id = [found |-> FALSE]

NextPublish ==
    \/ AppendBatch
    \/ Report

SpecPublish == InitPublish /\ [][NextPublish]_vars

(***************************************************************************)
(* get_or_create_playlist on users with up to MaxOwned playlists: main on  *)
(* an empty input list, run up to MaxRuns times.                           *)
(***************************************************************************)
PlaylistNames == {"Mix", "mix"}

\* n playlists, the one at position p1 named "Mix", the one at position p2
\* named name2, the others "other" (position 0: no such playlist).
OwnedList(n, p1, p2, name2) ==
    [k \in 1..n |->
        [name |-> IF k = p1 THEN "Mix" ELSE IF k = p2 THEN name2 ELSE "other",
         id |-> k]]

InitPlaylist ==
    /\ \E name \in PlaylistNames : Start(<<>>, name)
    /\ \E n \in 0..MaxOwned :
         \E p1 \in {0, 1, 2, n - 1, n} \cap 0..n, p2 \in {0, 1, n} \cap 0..n :
           \E name2 \in PlaylistNames :
              owned = OwnedList(n, p1, p2, name2)
    /\ runs = 1
    /\ prev_id = [found |-> FALSE]

NextPlaylist ==
    \/ ResolvePlaylist
    \/ Report
    \/ Rerun

SpecPlaylist == InitPlaylist /\ [][NextPlaylist]_vars

(***************************************************************************)
(* Vocabulary of the properties.                                           *)
(***************************************************************************)
Range(f) == {f[k] : k \in DOMAIN f}

Last(s) == s[Len(s)]

\* The elements of a finite set of integers, in ascending order.
RECURSIVE Ascending(_)
Ascending(S) ==
    IF S = {} THEN <<>>
    ELSE LET m == CHOOSE x \in S : \A y \in S : x <= y
         IN  <<m>> \o Ascending(S \ {m})

Positions == 1..Len(files)

\* The items for which the catalog gave a URI, exactly or by selection.
ResolvedPositions ==
    {i \in Positions : outcome[i].kind \in {"exact", "selected"} /\ Truthy(outcome[i].uri)}

\* main has left the fuzzy loop of the item it took last, on an answer.
SessionAnswered == um >= 1 /\ input_log # <<>> /\ Len(input_log) = Len(fuzzy_log)

\* The input position of the item the fuzzy loop took last.
SessionItem == unmatched_songs[um].i

\* A string that writes an integer in decimal digits.
IsInteger(s) == s # <<>> /\ \A k \in 1..Len(s) : s[k] \in DecimalChars

\* C1. Order preservation: the URI list handed to add_tracks_to_playlist is
\* the list of the URIs the catalog gave for the resolved items, in strictly
\* ascending input position, whether a URI came from the exact pass or from
\* the later fuzzy pass.
C1_OrderPreserved ==
    pc \in {"publish", "done"} =>
        LET order == Ascending(ResolvedPositions)
        IN  /\ Len(publish_uris) = Len(order)
            /\ \A k \in 1..Len(order) : publish_uris[k] = outcome[order[k]].uri

\* A run in which the first item is resolved in the fuzzy pass, after the
\* second item was resolved in the exact pass.
C1_Witness ==
    /\ pc = "done"
    /\ Len(files) = 3
    /\ outcome[1] = [kind |-> "selected", uri |-> "u1"]
    /\ outcome[2] = [kind |-> "exact", uri |-> "u2"]
    /\ outcome[3].kind = "skipped"
    /\ publish_uris = <<"u1", "u2">>
    /\ append_calls = <<publish_uris>>

InPublished(i) == \E k \in 1..Len(publish_pos) : publish_pos[k] = i
InUnparsedReport(i) ==
    outcome[i].kind = "unparsed" /\ strip(files[i]) \in Range(printed.unparsed)
InUnresolvedReport(i) ==
    outcome[i].kind = "skipped" /\ strip(files[i]) \in Range(printed.unresolved)

\* C2. Outcome totality: when a run completes, every input item is in exactly
\* one of the published list, the unparsed report and the unresolved report,
\* and the sizes of the three add up to the number of input items.
C2_OutcomeTotality ==
    pc = "done" =>
        /\ \A i \in Positions :
              /\ InPublished(i) \/ InUnparsedReport(i) \/ InUnresolvedReport(i)
              /\ ~(InPublished(i) /\ InUnparsedReport(i))
              /\ ~(InPublished(i) /\ InUnresolvedReport(i))
              /\ ~(InUnparsedReport(i) /\ InUnresolvedReport(i))
        /\ Len(publish_uris) + Len(printed.unparsed) + Len(printed.unresolved)
              = Len(files)

\* C3. Batch chunking: the batches given to playlist_add_items are, in call
\* order, the consecutive slices of the list, each of 1 to 50 URIs and all
\* but the last of exactly 50; when publishing is over there are
\* ceil(n / 50) of them and together they are the list.
C3_BatchChunking ==
    LET n == Len(publish_uris)
        c == Len(append_calls)
    IN  /\ \A k \in 1..c : 1 <= Len(append_calls[k]) /\ Len(append_calls[k]) <= 50
        /\ \A k \in 1..(c - 1) : Len(append_calls[k]) = 50
        /\ pc = "publish" => Concat(append_calls) = SubSeq(publish_uris, 1, Min(batch_i, n))
        /\ pc = "done" =>
              /\ c = (n + 49) \div 50
              /\ Concat(append_calls) = publish_uris

\* The example of the specification: 120 URIs go out as 50, 50 and 20.
C3_Witness ==
    /\ pc = "done"
    /\ Len(publish_uris) = 120
    /\ Len(append_calls) = 3
    /\ Len(append_calls[1]) = 50
    /\ Len(append_calls[2]) = 50
    /\ Len(append_calls[3]) = 20

\* C4. Skip on empty: once the operator has answered a prompt with the empty
\* string, in whatever round, the item's loop is over with no further
\* search, the item is skipped and its file name is the newest entry of the
\* unresolved list; a skipped item's slot stays empty, it has no place in the
\* published list, of which every batch appended is a slice, and its file
\* name is in the printed unresolved report.
C4_SkipOnEmpty ==
    /\ (SessionAnswered /\ Last(input_log) = <<>>) =>
          /\ pc \notin {"search", "prompt"}
          /\ outcome[SessionItem].kind = "skipped"
          /\ still_unmatched_songs # <<>>
          /\ Last(still_unmatched_songs) = strip(files[SessionItem])
    /\ \A i \in Positions :
          outcome[i].kind = "skipped" =>
              /\ track_uris[i] = None
              /\ ~InPublished(i)
              /\ Len(publish_pos) = Len(publish_uris)
              /\ Concat(append_calls) = SubSeq(publish_uris, 1, Len(Concat(append_calls)))
              /\ pc = "done" => strip(files[i]) \in Range(printed.unresolved)

\* A run that ended after an item was skipped in its second round, while
\* another item was published.
C4_Witness ==
    /\ pc = "done"
    /\ input_log = <<<<"x">>, <<>>>>
    /\ Len(fuzzy_log) = 2
    /\ outcome[SessionItem].kind = "skipped"
    /\ printed.unresolved = <<strip(files[SessionItem])>>
    /\ append_calls # <<>>

\* C5. Selection: once the operator has answered a prompt with an integer k,
\* 1 <= k <= N, N the number of matches of the latest fuzzy answer, the
\* item's slot holds the URI of the k-th match of that answer and the item's
\* loop is over: no further search and no further prompt.
C5_Selection ==
    (/\ SessionAnswered
     /\ IsInteger(Last(input_log))
     /\ 1 <= int(Last(input_log))
     /\ int(Last(input_log)) <= Len(last_answer)) =>
        /\ pc \notin {"search", "prompt"}
        /\ track_uris[SessionItem] = last_answer[int(Last(input_log))]
        /\ outcome[SessionItem] =
              [kind |-> "selected", uri |-> last_answer[int(Last(input_log))]]

\* The example of the specification: a new query in the first round, then
\* match 2 of the second answer is selected.
C5_Witness ==
    /\ SessionAnswered
    /\ input_log = <<<<"x">>, <<"2">>>>
    /\ last_answer = <<"u1", "u2">>
    /\ track_uris[SessionItem] = "u2"
    /\ pc = "playlist"

\* An answer that selects among n matches: an integer in [1, n].
InRange(choice, n) == IsInteger(choice) /\ 1 <= int(choice) /\ int(choice) <= n

\* C6. Requery: a non-empty answer that is not an integer in [1, N] becomes
\* the query of the next fuzzy search verbatim; the item's first search asks
\* for "artist title" as parsed, its j-th search (j > 1) for the (j-1)-th
\* answer, and a loop that has ended made as many searches as it got answers
\* (r requeries and the final answer: r + 1).
C6_Requery ==
    um >= 1 =>
        /\ fuzzy_log # <<>> =>
              fuzzy_log[1] = parsed[SessionItem][1] \o <<" ">> \o parsed[SessionItem][2]
        /\ \A j \in 2..Len(fuzzy_log) : fuzzy_log[j] = input_log[j - 1]
        /\ (/\ SessionAnswered
            /\ Last(input_log) # <<>>
            /\ ~InRange(Last(input_log), Len(last_answer))) =>
              /\ pc = "search"
              /\ query = Last(input_log)
        /\ pc \notin {"search", "prompt", "catalog_error"} =>
              Len(fuzzy_log) = Len(input_log)

NamedListed == {k \in 1..Len(listed) : listed[k].name = playlist_name}
NamedOwned == {k \in 1..Len(owned) : owned[k].name = playlist_name}
CreateCall == [name |-> playlist_name, public |-> FALSE]

\* C7. Collection resolve: get_or_create_playlist returns the id of the
\* first playlist of the listing whose name is exactly the requested one,
\* and then creates nothing; it makes one create call (private, that name)
\* and returns the id of the playlist created exactly when the listing has
\* no playlist of that name.
C7_CollectionResolve ==
    /\ Len(create_calls) <= 1
    /\ create_calls # <<>> => create_calls = <<CreateCall>> /\ NamedListed = {}
    /\ pc \in {"publish", "done"} =>
          IF NamedListed # {}
          THEN /\ create_calls = <<>>
               /\ playlist_id =
                     [found |-> TRUE,
                      id |-> listed[CHOOSE k \in NamedListed :
                                       \A j \in NamedListed : k <= j].id]
          ELSE /\ create_calls = <<CreateCall>>
               /\ playlist_id.found
               /\ \E k \in NamedOwned : owned[k].id = playlist_id.id
               /\ \A j \in 1..Len(listed) : listed[j].id # playlist_id.id

\* The listing has the name twice (and more than two playlists): the first
\* one is returned and nothing is created.
C7_Witness ==
    /\ pc = "done"
    /\ Cardinality(NamedListed) = 2
    /\ 2 \in NamedListed
    /\ Len(listed) > 3
    /\ playlist_id = [found |-> TRUE, id |-> listed[2].id]
    /\ create_calls = <<>>

\* C8. Collection idempotence: whatever playlists the user owns, a second
\* resolution of the same name returns the id the first returned and calls
\* create no more; a name the user already owns is reused, never duplicated
\* (so after a create call the user owns that name once).
C8_CollectionIdempotence ==
    pc \in {"publish", "done"} =>
        /\ runs >= 2 => playlist_id = prev_id /\ create_calls = <<>>
        /\ create_calls # <<>> => Cardinality(NamedOwned) = 1

(***************************************************************************)
(* The fields of a name, stated without the scan of split: the cuts are    *)
(* the occurrences of " - " that no earlier cut overlaps.                  *)
(***************************************************************************)
Cuts(s) ==
    LET occ == {k \in 1..Len(s) : SubSeq(s, k, Min(k + 2, Len(s))) = <<" ", "-", " ">>}
    IN  CHOOSE D \in SUBSET occ :
            \A k \in occ : (k \in D) <=> ~(\E d \in D : d < k /\ k < d + 3)

FieldsOf(s) ==
    LET c == Ascending(Cuts(s))
        n == Len(c)
    IN  [j \in 1..(n + 1) |->
            SubSeq(s, IF j = 1 THEN 1 ELSE c[j - 1] + 3,
                      IF j = n + 1 THEN Len(s) ELSE c[j] - 1)]

AllDigits(s) == s # <<>> /\ \A k \in 1..Len(s) : s[k] \in {"0", "1", "2", "3", "sup2"}

\* The name without surrounding whitespace and extension, every underscore
\* read as a space.
Normalised(raw) ==
    LET base == splitext_root(strip(raw))
    IN  [k \in 1..Len(base) |-> IF base[k] = "_" THEN " " ELSE base[k]]

\* The name without surrounding whitespace and extension, each "_-_" read
\* as " - " and the other underscores left alone.
RECURSIVE UnifyDelimiters(_)
UnifyDelimiters(s) ==
    IF s = <<>> THEN <<>>
    ELSE IF Len(s) >= 3 /\ SubSeq(s, 1, 3) = <<"_", "-", "_">>
         THEN <<" ", "-", " ">> \o UnifyDelimiters(SubSeq(s, 4, Len(s)))
         ELSE <<Head(s)>> \o UnifyDelimiters(Tail(s))

Classified(f, result) ==
    IF Len(f) = 2 THEN result = <<f[1], f[2]>>
    ELSE IF Len(f) = 3 /\ AllDigits(f[1]) THEN result = <<f[2], f[3]>>
    ELSE result = <<NoneStr, NoneStr>>

Handled == {i \in Positions : parsed[i] # <<>>}

\* C9 (as amended). Parse classification: with surrounding whitespace and
\* the extension removed and every underscore read as a space, parse_filename
\* returns the two fields when " - " cuts the name in two, the second and
\* third field when it cuts it in three and the first is a non-empty string
\* of digits, and (None, None) in every other case; a (None, None) result
\* sends the file name to the unparsed list.
C9_ParseClassification ==
    \A i \in Handled :
        /\ Classified(FieldsOf(Normalised(files[i])), parsed[i])
        /\ parsed[i] = <<NoneStr, NoneStr>> =>
              /\ outcome[i].kind = "unparsed"
              /\ strip(files[i]) \in Range(unparsed_files)

\* A name with a track number, an artist and a title, which was parsed and
\* searched; and it holds an underscore that is part of no "_-_".
C9_Witness ==
    /\ Handled = {1}
    /\ Len(FieldsOf(Normalised(files[1]))) = 3
    /\ parsed[1] = <<<<"a">>, <<"1">>>>
    /\ outcome[1].kind = "exact"

\* C9 as claimed, for the names main goes on to search: with only "_-_"
\* read as " - ", a name that parse_filename accepts has two fields, or
\* three of which the first is a non-empty string of digits.
C9_AsClaimed ==
    \A i \in Handled :
        (TruthyStr(parsed[i][1]) /\ TruthyStr(parsed[i][2])) =>
            LET f == FieldsOf(UnifyDelimiters(splitext_root(strip(files[i]))))
            IN  Len(f) = 2 \/ (Len(f) = 3 /\ AllDigits(f[1]))

NotBlank(s) == \E k \in 1..Len(s) : s[k] # " "

\* C10. Parse idempotence: when parse_filename gives an artist and a title
\* (neither of them blank), parsing "artist - title" again gives the same
\* artist and title.
C10_ParseIdempotence ==
    \A i \in Handled :
        (/\ parsed[i] # <<NoneStr, NoneStr>>
         /\ NotBlank(parsed[i][1])
         /\ NotBlank(parsed[i][2])) =>
            parse_filename(parsed[i][1] \o <<" ", "-", " ">> \o parsed[i][2]) = parsed[i]

\* get_or_create_playlist has returned the id of the destination playlist.
CollectionResolved == playlist_id.found

\* C11. Collection first: the destination playlist is resolved (listed and,
\* if absent, created) before any file name is parsed, before any exact or
\* fuzzy search is made, and before the first batch is appended.
C11_CollectionFirst ==
    /\ Handled # {} => CollectionResolved
    /\ exact_calls # <<>> => CollectionResolved
    /\ fuzzy_log # <<>> => CollectionResolved
    /\ append_calls # <<>> => CollectionResolved

\* parse_filename gave fields for the item at position i.
ParseSucceeded(i) == parsed[i] # <<>> /\ parsed[i] # <<NoneStr, NoneStr>>

\* The exact searches made for the item at position i.
ExactCallsOf(i) == {k \in 1..Len(exact_calls) : exact_calls[k].i = i}

\* The item at position i was handed to the fuzzy pass.
IsMiss(i) == \E k \in 1..Len(unmatched_songs) : unmatched_songs[k].i = i

\* C12. Unparsed items never reach resolution: an item that did not parse
\* gets no exact search and no fuzzy session; an item that parsed gets
\* exactly one exact search, of limit 1, asking for the artist and the title
\* as separate qualified fields; when the catalog answers it with no track
\* the item is a miss, and when it answers with tracks the item is resolved
\* to the URI of the first.
C12_ExactResolution ==
    /\ \A i \in Positions :
          IF ParseSucceeded(i)
          THEN /\ Cardinality(ExactCallsOf(i)) = 1
               /\ \A k \in ExactCallsOf(i) :
                     /\ exact_calls[k].limit = 1
                     /\ exact_calls[k].q =
                           <<"artist:">> \o parsed[i][1] \o <<" ", "track:">> \o parsed[i][2]
          ELSE /\ ExactCallsOf(i) = {}
               /\ ~IsMiss(i)
    /\ fuzzy_log # <<>> => um >= 1 /\ ParseSucceeded(SessionItem)
    /\ exact_answer.i >= 1 =>
          IF exact_answer.tracks = <<>>
          THEN /\ IsMiss(exact_answer.i)
               /\ track_uris[exact_answer.i] = None \/ outcome[exact_answer.i].kind = "selected"
          ELSE /\ ~IsMiss(exact_answer.i)
               /\ track_uris[exact_answer.i] = exact_answer.tracks[1]
               /\ outcome[exact_answer.i] = [kind |-> "exact", uri |-> exact_answer.tracks[1]]

\* The operator ends the fuzzy loop of an item: a selection or an empty
\* answer.
TerminalAnswer == Prompt /\ pc' \in {"session", "playlist"}

(***************************************************************************)
(* One run of main that does not stop short: main is a single sequential   *)
(* thread, so whenever it has a next step (the catalog answers or raises,  *)
(* the operator types a line) it takes one; and the operator, asked again  *)
(* and again about an item, at some prompt gives an answer that ends its   *)
(* loop.                                                                   *)
(***************************************************************************)
SpecFair == Init /\ [][Next]_vars /\ WF_vars(Next) /\ SF_vars(TerminalAnswer)

\* Every input item has been through the first loop, and those that parsed
\* have been searched.
AllExactSearched ==
    \A i \in Positions :
        /\ parsed[i] # <<>>
        /\ ParseSucceeded(i) => ExactCallsOf(i) # {}

\* C13. Per-item failures never abort the run: unless a call to the catalog
\* fails, a run in which the operator ends every fuzzy session (after any
\* number of new queries) comes to the end of main, with the
\* playlist published and the two reports printed, and with every parsable
\* item searched exactly, whatever unparsable names and exact misses precede it.
C13_RunCompletes ==
    <>(pc = "catalog_error" \/ (pc = "done" /\ AllExactSearched))

\* A string with no whitespace at either end.
Trimmed(s) == s = <<>> \/ (Head(s) \notin Whitespace /\ s[Len(s)] \notin Whitespace)

\* C14. Parsed fields are trimmed: when parse_filename gives an artist and a
\* title (neither of them blank), neither begins or ends with whitespace,
\* also when an underscore or a further space stands next to the delimiter.
C14_FieldsTrimmed ==
    \A i \in Handled :
        (/\ ParseSucceeded(i)
         /\ NotBlank(parsed[i][1])
         /\ NotBlank(parsed[i][2])) =>
            Trimmed(parsed[i][1]) /\ Trimmed(parsed[i][2])

\* The input positions of the items the fuzzy loop has taken so far, in the
\* order it took them.
SessionOrder == [k \in 1..um |-> unmatched_songs[k].i]

\* C15. Two-pass ordering: no fuzzy search is made and no prompt shown
\* before the first loop has handled every input item, the exact search of
\* the last parsable one answered; the fuzzy loop then takes the exact
\* misses, and only those, one after the other in ascending input position,
\* and it has taken a further one only when every one taken before was
\* resolved by a selection or skipped.
C15_TwoPassOrdering ==
    /\ (um >= 1 \/ fuzzy_log # <<>> \/ input_log # <<>> \/ pc \in {"search", "prompt"}) =>
          /\ um >= 1
          /\ idx = Len(files) + 1
          /\ \A i \in Positions : outcome[i].kind # "pending"
          /\ \A i \in Positions : ParseSucceeded(i) => exact_answer.i >= i
    /\ \A k \in 1..um :
          /\ exact_answer.i >= SessionOrder[k]
          /\ outcome[SessionOrder[k]].kind \in {"miss", "selected", "skipped"}
          /\ k < um => outcome[SessionOrder[k]].kind \in {"selected", "skipped"}
          /\ k < um => SessionOrder[k] < SessionOrder[k + 1]
          /\ \A i \in Positions :
                (IsMiss(i) /\ i < SessionOrder[k]) => \E j \in 1..(k - 1) : SessionOrder[j] = i
    /\ pc \in {"playlist", "publish", "done"} =>
          /\ um = Len(unmatched_songs)
          /\ \A i \in Positions : outcome[i].kind # "miss"

\* The first and the third of three items are exact misses, the second is an
\* exact hit; the first was resolved by a selection and the operator is now
\* asked about the third.
C15_Witness ==
    /\ Len(files) = 3
    /\ pc = "prompt"
    /\ SessionOrder = <<1, 3>>
    /\ outcome[1].kind = "selected"
    /\ outcome[2].kind = "exact"
    /\ outcome[3].kind = "miss"

\* Text that is neither empty nor a selection among n matches: a new query.
RequeryText(choice, n) == choice # <<>> /\ ~InRange(choice, n)

\* C16. Disambiguation termination: main leaves an item's fuzzy loop only on
\* an answer that is an integer in [1, N], the item then being resolved, or
\* on an empty answer, the item then being skipped; every answer before that
\* one was a new query, and an answer that is a new query is always followed
\* by one more search, whatever the number of searches made before it.
C16_SessionExit ==
    um >= 1 =>
        /\ pc \notin {"search", "prompt", "catalog_error"} =>
              /\ input_log # <<>>
              /\ \/ /\ InRange(Last(input_log), Len(last_answer))
                    /\ outcome[SessionItem].kind = "selected"
                 \/ /\ Last(input_log) = <<>>
                    /\ outcome[SessionItem].kind = "skipped"
        /\ \A j \in 1..(Len(input_log) - 1) :
              input_log[j] # <<>> /\ fuzzy_log[j + 1] = input_log[j]
        /\ (SessionAnswered /\ RequeryText(Last(input_log), Len(last_answer))) =>
              pc = "search" /\ outcome[SessionItem].kind = "miss"
        /\ pc = "search" => Len(fuzzy_log) = Len(input_log)
        /\ pc = "prompt" => Len(fuzzy_log) = Len(input_log) + 1

(***************************************************************************)
(* One run of main, from its start or from the point where                 *)
(* add_tracks_to_playlist is given a long list.                            *)
(***************************************************************************)
SpecFailure == (Init \/ InitPublish) /\ [][Next]_vars

\* C17. Catalog failure is fatal and not retried: a call to the catalog
\* that raises ends main in error, with neither report printed, and the
\* batch that failed is counted neither appended nor passed; from then on
\* main makes no call to the catalog at all: no search, no listing, no
\* create, and no append of the batch that failed or of a later one.
C17_CatalogFailureFatal ==
    [][/\ raised' # "" =>
             /\ pc' = "catalog_error"
             /\ printed' = [unparsed |-> <<>>, unresolved |-> <<>>]
       /\ (raised = "" /\ raised' = "append") =>
             UNCHANGED <<append_calls, batch_i>>
       /\ raised # "" =>
             UNCHANGED <<raised, exact_calls, fuzzy_log, input_log, listed,
                         create_calls, append_calls, batch_i, owned>>]_vars

\* The second of three batches raised: one batch is appended, and main is
\* over.
C17_Witness ==
    /\ raised = "append"
    /\ pc = "catalog_error"
    /\ Len(publish_uris) = 120
    /\ batch_i = 50
    /\ Len(append_calls) = 1

(***************************************************************************)
(* One run of main on a list in which every name that parses is another    *)
(* one ("a - 1.mp3" at the first position, "a - 2.mp3" at the second, and  *)
(* so on), or a name that does not parse.                                  *)
(***************************************************************************)
TrackName(k) ==
    <<"a", " ", "-", " ", CHOOSE c \in DecimalChars : DigitValue(c) = k % 4>> \o Mp3Ext

InitReport ==
    /\ \E n \in 0..MaxFiles :
          \E fs \in [1..n -> {GoodName, BadName}] :
             Start([k \in 1..n |-> IF fs[k] = GoodName THEN TrackName(k) ELSE BadName], "Mix")
    /\ owned \in {<<>>, <<[name |-> "Mix", id |-> 1]>>}
    /\ runs = 1
    /\ prev_id = [found |-> FALSE]

SpecReport == InitReport /\ [][Next]_vars

\* How many elements of the sequence s are u.
Occurrences(s, u) == Cardinality({k \in 1..Len(s) : s[k] = u})

\* The items whose fuzzy loop ended on an empty answer.
SkippedPositions == {i \in Positions : outcome[i].kind = "skipped"}

\* The file names, as main read them, of the items at the positions of S,
\* in ascending position.
NamesOf(S) == [k \in 1..Cardinality(S) |-> strip(files[Ascending(S)[k]])]

\* C18. The unresolved report is exactly the terminal skips: main collects,
\* and at its end prints, the file names of the items whose fuzzy loop ended
\* on an empty answer, one entry for each such item and in ascending input
\* position; a name is printed as many times as there are skipped items of
\* that name (once, the names being different), so an exact miss resolved
\* by a selection, an exact hit and an unparsable name have no entry.
C18_UnresolvedReport ==
    /\ still_unmatched_songs = NamesOf(SkippedPositions)
    /\ pc = "done" =>
          /\ printed.unresolved = NamesOf(SkippedPositions)
          /\ \A i \in Positions :
                Occurrences(printed.unresolved, strip(files[i])) =
                    Cardinality({j \in SkippedPositions : strip(files[j]) = strip(files[i])})
          /\ Len(printed.unresolved) + Cardinality({i \in Positions : outcome[i].kind = "selected"})
                = Len(unmatched_songs)

\* Three exact misses of three different names: the first and the third
\* skipped, the second resolved by a selection; the report has the first
\* name, then the third.
C18_Witness ==
    /\ pc = "done"
    /\ Len(files) = 3
    /\ files[1] # files[3]
    /\ outcome[1].kind = "skipped"
    /\ outcome[2].kind = "selected"
    /\ outcome[3].kind = "skipped"
    /\ printed.unresolved = <<files[1], files[3]>>

\* The URIs handed to playlist_add_items so far, in the order handed.
Submitted == Concat(append_calls)

\* The items resolved, by an exact hit or by a selection, to the URI u.
ResolvedTo(u) ==
    {i \in Positions : outcome[i].kind \in {"exact", "selected"} /\ outcome[i].uri = u}

\* C19 (as amended). No item's URI is submitted twice: across the append
\* calls of a run a URI occurs at most as many times as there are input
\* items resolved to it, and when publishing is over a URI that was
\* submitted occurs exactly as many times: once for each such item, so more
\* than once when several items were resolved to the same track.
C19_OncePerItem ==
    /\ \A i \in Positions :
          Occurrences(Submitted, outcome[i].uri) <= Cardinality(ResolvedTo(outcome[i].uri))
    /\ \A u \in Range(Submitted) :
          /\ Occurrences(Submitted, u) <= Cardinality(ResolvedTo(u))
          /\ pc = "done" => Occurrences(Submitted, u) = Cardinality(ResolvedTo(u))

\* Two items, one resolved by an exact hit and one by a selection, to the
\* same track: its URI went out twice.
C19_Witness ==
    /\ pc = "done"
    /\ Len(files) = 2
    /\ outcome[1] = [kind |-> "selected", uri |-> "u1"]
    /\ outcome[2] = [kind |-> "exact", uri |-> "u1"]
    /\ append_calls = <<<<"u1", "u1">>>>

\* C19 as claimed. No URI value is submitted twice: across the append calls
\* of a run, no URI occurs more than once.
C19_NoUriTwice ==
    \A u \in Range(Submitted) : Occurrences(Submitted, u) = 1

\* What the slot of item i holds, given how the item ended: the catalog's
\* URI for an exact hit or a selection, nothing otherwise; and only an item
\* that was not an exact hit and did parse is handed to the fuzzy loop.
SlotAsOutcome(i) ==
    /\ outcome[i].kind = "exact" =>
          track_uris[i] = outcome[i].uri /\ track_uris[i] # None /\ ~IsMiss(i)
    /\ outcome[i].kind = "selected" =>
          track_uris[i] = outcome[i].uri /\ IsMiss(i)
    /\ outcome[i].kind = "unparsed" =>
          track_uris[i] = None /\ ~IsMiss(i)
    /\ outcome[i].kind \in {"pending", "miss", "skipped"} =>
          track_uris[i] = None

\* C20. Write-once result slots: in every step of a run, a slot of
\* track_uris that holds a URI keeps it, a slot is written only for an item
\* that has no outcome yet or is an exact miss in its fuzzy loop, and an item
\* that has been an exact hit, resolved by a selection, skipped or
\* unparsable keeps its outcome and its slot; so an exact hit is never
\* handed to the fuzzy loop nor overwritten by a selection, and the slot of
\* an unparsable item is never written.
C20_WriteOnceSlots ==
    [][\A i \in Positions :
          /\ track_uris[i] # None => track_uris'[i] = track_uris[i]
          /\ track_uris'[i] # track_uris[i] =>
                \/ outcome[i].kind = "pending" /\ outcome'[i].kind = "exact"
                \/ outcome[i].kind = "miss" /\ outcome'[i].kind = "selected"
          /\ outcome[i].kind \in {"exact", "selected", "skipped", "unparsed"} =>
                outcome'[i] = outcome[i] /\ track_uris'[i] = track_uris[i]
          /\ SlotAsOutcome(i)'
      ]_vars

\* A run with an exact hit, a miss resolved by a selection and an
\* unparsable name: two slots written, the third empty.
C20_Witness ==
    /\ pc = "done"
    /\ Len(files) = 3
    /\ outcome[1].kind = "exact"
    /\ outcome[2].kind = "selected"
    /\ outcome[3].kind = "unparsed"
    /\ track_uris = <<outcome[1].uri, outcome[2].uri, None>>
    /\ track_uris[2] # ""

====
